---- MODULE Spec2Model ----
(***************************************************************************)
(* Token vault of rustdatatokenizer: the sled-backed command-line program  *)
(* (tokenizer/src/main.rs) and the sled-backed HTTP service                *)
(* (tokenizer/src/api-endpoint/main.rs), and the SQL-backed program        *)
(* (tokenizer/src/sql-server/main_sqlserver.rs).                           *)
(*                                                                         *)
(* Strings are modelled by a small universe: Tokens are the strings        *)
(* generate_token can return, Words the whitespace-free strings an input   *)
(* can hold.  One word ("tA") is spelled like a token: nothing in the code *)
(* keeps the two apart.  A text is a sequence of words and whitespace      *)
(* runs (" ").                                                             *)
(***************************************************************************)
EXTENDS Integers, Sequences, FiniteSets, TLC

\* ------------------------------------------------------------------ bounds
MaxTextLen == 3      \* items (words and whitespace runs) of one input text
MaxCalls == 2        \* tokenize calls over one behaviour
MaxRestarts == 1     \* process restarts over one behaviour
MaxMints == 3        \* the history counter of generate_token calls stops here

\* ---------------------------------------------------------------- universe
Tokens == {"tA", "tB"}
Words == {"x", "y", "tA"}
StrOrder == <<"tA", "tB", "x", "y">>
Alphabet == Words \cup {" "}
Reqs == {1, 2}      \* the CLI's main thread is 1; HTTP serves two requests at a time

WellFormed(t) == \A i \in 1..(Len(t) - 1) : t[i] = " " \/ t[i + 1] = " "
Texts == UNION {{t \in [1..n -> Alphabet] : WellFormed(t)} : n \in 0..MaxTextLen}

VARIABLES
  variant,        \* "cli" (main.rs) or "http" (api-endpoint/main.rs)
  word_to_token,  \* TokenVault.word_to_token
  token_to_word,  \* TokenVault.token_to_word
  db_vault,       \* the record db.get("vault") returns
  disk,           \* the record a reopened store recovers
  lock,           \* AppState.vault: 0 when free, else the holding request
  pc,             \* where each request (the CLI's main is request 1) stands
  words,          \* tokenize: words
  idx,            \* tokenize: position of the for loop
  tokenized,      \* tokenize: tokenized
  new_token,      \* tokenize: new_token
  count,          \* tokenize (HTTP): count
  resp,           \* what the caller got: status 0 (nothing yet), 200, 500
  retrieved,      \* main (CLI): retrieved
  calls,          \* tokenize calls so far
  restarts,       \* restarts so far
  fresh,          \* TRUE from PersistentTokenVault::new to the first call
  pre,            \* history: the maps when the last set_token was entered
  lastSaved,      \* history: the maps at the last save that returned Ok
  issued,         \* history: (word, token) pairs returned Ok in this lifetime
  setCalls,       \* history: set_token calls per word in this lifetime
  arrivedNew,     \* history: words of the request not in the vault on arrival
  contended,      \* history: the request waited while another held the lock
  storeUp,        \* history: the store could be opened and read at the last start
  mints,          \* history: generate_token calls for the word being minted
  startNew,       \* history: words of the call not in the vault when tokenize began
  setLog,         \* history: the words set_token was called for in this call
  sql_tokens,     \* main_sqlserver.rs: TokenVault.tokens
  sql_table       \* main_sqlserver.rs: the rows of table TokenVault, token -> value

vars == <<variant, word_to_token, token_to_word, db_vault, disk, lock, pc, words,
          idx, tokenized, new_token, count, resp, retrieved, calls, restarts,
          fresh, pre, lastSaved, issued, setCalls, arrivedNew, contended,
          storeUp, mints, startNew, setLog, sql_tokens, sql_table>>
sqlVars == <<sql_tokens, sql_table>>

\* -------------------------------------------------------------------- maps
EmptyMap == [k \in {} |-> ""]
MapInsert(m, k, v) == [j \in (DOMAIN m) \cup {k} |-> IF j = k THEN v ELSE m[j]]
Vault == [word_to_token |-> word_to_token, token_to_word |-> token_to_word]
EmptyVault == [word_to_token |-> EmptyMap, token_to_word |-> EmptyMap]

\* str::split_whitespace and [String]::join(" ")
IsWord(c) == c # " "
SplitWhitespace(text) == SelectSeq(text, IsWord)
RECURSIVE Join(_)
Join(s) ==
  IF Len(s) = 0 THEN <<>>
  ELSE IF Len(s) = 1 THEN s
  ELSE <<Head(s), " ">> \o Join(Tail(s))

\* bincode::serialize / bincode::deserialize of a TokenVault: each map is
\* written as its list of (key, value) entries and read back by inserting them.
Entries(m) ==
  LET keys == SelectSeq(StrOrder, LAMBDA k : k \in DOMAIN m)
  IN [i \in 1..Len(keys) |-> <<keys[i], m[keys[i]]>>]
RECURSIVE FromEntries(_)
FromEntries(es) ==
  IF Len(es) = 0 THEN EmptyMap
  ELSE MapInsert(FromEntries(SubSeq(es, 1, Len(es) - 1)), es[Len(es)][1], es[Len(es)][2])
Serialize(v) == [w2t |-> Entries(v.word_to_token), t2w |-> Entries(v.token_to_word)]
Deserialize(data) ==
  [word_to_token |-> FromEntries(data.w2t), token_to_word |-> FromEntries(data.t2w)]

NoRecord == [present |-> FALSE, data |-> Serialize(EmptyVault)]
Record(v) == [present |-> TRUE, data |-> Serialize(v)]

\* A "vault" record that bincode cannot decode: its first entry is cut short.
Garbage == [present |-> TRUE, data |-> [w2t |-> << <<"x">> >>, t2w |-> <<>>]]

\* bincode::deserialize returns Ok exactly when every entry is a whole pair
Decodable(data) ==
  /\ \A i \in 1..Len(data.w2t) : Len(data.w2t[i]) = 2
  /\ \A i \in 1..Len(data.t2w) : Len(data.t2w[i]) = 2

\* a start that loads nothing from the record
NewNoLoad(rec) == EmptyVault

\* PersistentTokenVault::new on its Ok path: the vault a store holding record
\* rec opens with; unwrap_or replaces a record that fails to decode by the
\* empty vault.
New(rec) ==
  IF rec.present
    THEN IF Decodable(rec.data) THEN Deserialize(rec.data) ELSE EmptyVault
    ELSE EmptyVault

\* PersistentTokenVault::new as a Result: sled::open(path)? and db.get("vault")?
\* are its only error exits.
NewResult(rec, storeOk) ==
  IF storeOk THEN [ok |-> TRUE, vault |-> New(rec)]
             ELSE [ok |-> FALSE, vault |-> EmptyVault]

\* PersistentTokenVault::get_token / get_word: Some(_) is a one-element set
GetToken(word) == IF word \in DOMAIN word_to_token THEN {word_to_token[word]} ELSE {}
GetWord(token) == IF token \in DOMAIN token_to_word THEN {token_to_word[token]} ELSE {}

\* What a caller has in hand: nothing yet, Ok(tokenized) (HTTP 200 with the
\* text), or an error (HTTP 500 with an empty body; main returning Err).
NoResp == [result |-> "none", status |-> 0, tokenized |-> <<>>]
OkResp(st, text) == [result |-> "ok", status |-> st, tokenized |-> text]
ErrResp(st) == [result |-> "err", status |-> st, tokenized |-> <<>>]
NoSave == [some |-> FALSE, vault |-> EmptyVault]

Init ==
  /\ variant \in {"cli", "http"}
  /\ disk \in {NoRecord, Garbage}
  /\ db_vault = disk
  /\ word_to_token = New(disk).word_to_token
  /\ token_to_word = New(disk).token_to_word
  /\ lock = 0
  /\ pc = [r \in Reqs |-> "idle"]
  /\ words = [r \in Reqs |-> <<>>]
  /\ idx = [r \in Reqs |-> 1]
  /\ tokenized = [r \in Reqs |-> <<>>]
  /\ new_token = [r \in Reqs |-> "tA"]
  /\ count = [r \in Reqs |-> 0]
  /\ resp = [r \in Reqs |-> NoResp]
  /\ retrieved = <<>>
  /\ calls = 0
  /\ restarts = 0
  /\ fresh = TRUE
  /\ pre = EmptyVault
  /\ lastSaved = NoSave
  /\ issued = {}
  /\ setCalls = [w \in Words |-> 0]
  /\ arrivedNew = [r \in Reqs |-> {}]
  /\ contended = [r \in Reqs |-> FALSE]
  /\ storeUp = TRUE
  /\ mints = [r \in Reqs |-> 0]
  /\ startNew = [r \in Reqs |-> {}]
  /\ setLog = [r \in Reqs |-> <<>>]
  /\ sql_tokens = EmptyMap
  /\ sql_table = EmptyMap

\* ----------------------------------------------------------------- actions
Range(s) == {s[i] : i \in 1..Len(s)}
Pairs(ws, ts) == {<<ws[i], ts[i]>> : i \in 1..Len(ws)}

\* the words of ws that word_to_token does not hold
NewWords(ws) == {w \in Range(ws) : w \notin DOMAIN word_to_token}

\* A call starts: an HTTP request arrives with req.input = text, or main runs
\* tokenize on its text (once per process run).
Request(r, text) ==
  /\ calls < MaxCalls
  /\ \/ variant = "http" /\ pc[r] \in {"idle", "done"}
     \/ variant = "cli" /\ r = 1 /\ pc[r] = "idle"
  /\ words' = [words EXCEPT ![r] = SplitWhitespace(text)]
  /\ idx' = [idx EXCEPT ![r] = 1]
  /\ tokenized' = [tokenized EXCEPT ![r] = <<>>]
  /\ count' = [count EXCEPT ![r] = 0]
  /\ resp' = [resp EXCEPT ![r] = NoResp]
  /\ pc' = [pc EXCEPT ![r] = IF variant = "http" THEN "lock" ELSE "lookup"]
  /\ calls' = calls + 1
  /\ fresh' = FALSE
  /\ arrivedNew' = [arrivedNew EXCEPT ![r] =
                      {w \in Range(SplitWhitespace(text)) : w \notin DOMAIN word_to_token}]
  /\ contended' = [contended EXCEPT ![r] = FALSE]
  /\ startNew' = [startNew EXCEPT ![r] =
                    IF variant = "http" THEN {} ELSE NewWords(SplitWhitespace(text))]
  /\ setLog' = [setLog EXCEPT ![r] = <<>>]
  /\ UNCHANGED <<variant, word_to_token, token_to_word, db_vault, disk, lock,
                 new_token, retrieved, restarts, pre, lastSaved, issued, setCalls,
                 storeUp, mints, sqlVars>>

\* Acquire as it would be if the lock were taken without waiting for it
AcquireNoWait(r) ==
  /\ pc[r] = "lock"
  /\ lock' = r
  /\ pc' = [pc EXCEPT ![r] = "lookup"]
  /\ contended' = [q \in Reqs |-> contended[q] \/ (q # r /\ pc[q] = "lock")]
  /\ startNew' = [startNew EXCEPT ![r] = NewWords(words[r])]
  /\ UNCHANGED <<variant, word_to_token, token_to_word, db_vault, disk, words, idx,
                 tokenized, new_token, count, resp, retrieved, calls, restarts,
                 fresh, pre, lastSaved, issued, setCalls, arrivedNew,
                 storeUp, mints, setLog, sqlVars>>

\* tokenize_handler: data.vault.lock().unwrap()
Acquire(r) ==
  /\ pc[r] = "lock"
  /\ lock = 0
  /\ lock' = r
  /\ pc' = [pc EXCEPT ![r] = "lookup"]
  /\ contended' = [q \in Reqs |-> contended[q] \/ (q # r /\ pc[q] = "lock")]
  /\ startNew' = [startNew EXCEPT ![r] = NewWords(words[r])]
  /\ UNCHANGED <<variant, word_to_token, token_to_word, db_vault, disk, words, idx,
                 tokenized, new_token, count, resp, retrieved, calls, restarts,
                 fresh, pre, lastSaved, issued, setCalls, arrivedNew,
                 storeUp, mints, setLog, sqlVars>>

\* Lookup as it would be if the get_token match never took its Some arm
LookupNoReuse(r) ==
  /\ pc[r] = "lookup"
  /\ IF idx[r] > Len(words[r])
       THEN /\ pc' = [pc EXCEPT ![r] = "ret_ok"]
            /\ UNCHANGED count
       ELSE /\ count' = [count EXCEPT ![r] = 0]
            /\ pc' = [pc EXCEPT ![r] = "mint"]
  /\ UNCHANGED <<variant, word_to_token, token_to_word, db_vault, disk, lock, words,
                 idx, tokenized, new_token, resp, retrieved, calls, restarts,
                 fresh, pre, lastSaved, issued, setCalls, arrivedNew, contended,
                 storeUp, mints, startNew, setLog, sqlVars>>

\* tokenize: the head of one iteration of `for word in words`, with the
\* get_token match; past the last word, Ok(tokenized.join(" ")).
Lookup(r) ==
  /\ pc[r] = "lookup"
  /\ IF idx[r] > Len(words[r])
       THEN /\ pc' = [pc EXCEPT ![r] = "ret_ok"]
            /\ UNCHANGED <<tokenized, idx, count>>
       ELSE LET found == GetToken(words[r][idx[r]])
            IN IF found # {}
                 THEN /\ tokenized' = [tokenized EXCEPT ![r] =
                                         Append(@, CHOOSE t \in found : TRUE)]
                      /\ idx' = [idx EXCEPT ![r] = @ + 1]
                      /\ UNCHANGED <<pc, count>>
                 ELSE /\ count' = [count EXCEPT ![r] = 0]
                      /\ pc' = [pc EXCEPT ![r] = "mint"]
                      /\ UNCHANGED <<tokenized, idx>>
  /\ UNCHANGED <<variant, word_to_token, token_to_word, db_vault, disk, lock, words,
                 new_token, resp, retrieved, calls, restarts, fresh, pre,
                 lastSaved, issued, setCalls, arrivedNew, contended,
                 storeUp, mints, startNew, setLog, sqlVars>>

MintFrame ==
  UNCHANGED <<variant, word_to_token, token_to_word, db_vault, disk, lock, words,
              idx, tokenized, resp, retrieved, calls, restarts, fresh, pre,
              lastSaved, issued, setCalls, arrivedNew, contended,
              storeUp, startNew, setLog, sqlVars>>

\* one more generate_token call for the word request r is minting
Minted(r) ==
  mints' = [mints EXCEPT ![r] = IF @ < MaxMints THEN @ + 1 ELSE @]

\* tokenize (main.rs): one turn of the loop; generate_token returns t
MintCli(r, t) ==
  /\ variant = "cli"
  /\ pc[r] = "mint"
  /\ new_token' = [new_token EXCEPT ![r] = t]
  /\ pc' = [pc EXCEPT ![r] = IF GetWord(t) = {} THEN "set" ELSE "mint"]
  /\ UNCHANGED count
  /\ Minted(r)
  /\ MintFrame

\* tokenize (api-endpoint/main.rs): one turn of the loop; generate_token returns t
MintHttp(r, t) ==
  /\ variant = "http"
  /\ pc[r] = "mint"
  /\ new_token' = [new_token EXCEPT ![r] = t]
  /\ count' = [count EXCEPT ![r] = @ + 1]
  /\ pc' = [pc EXCEPT ![r] =
              IF GetWord(t) = {} \/ count[r] + 1 = 2 THEN "set" ELSE "mint"]
  /\ Minted(r)
  /\ MintFrame

\* SetToken as it would be if the word that held the token before were
\* removed from word_to_token
SetTokenEvict(r) ==
  /\ pc[r] = "set"
  /\ LET word == words[r][idx[r]]
         kept == [w \in {v \in DOMAIN word_to_token : word_to_token[v] # new_token[r]}
                    |-> word_to_token[w]]
     IN /\ word_to_token' = MapInsert(kept, word, new_token[r])
        /\ token_to_word' = MapInsert(token_to_word, new_token[r], word)
        /\ setCalls' = [setCalls EXCEPT ![word] = @ + 1]
        /\ setLog' = [setLog EXCEPT ![r] = Append(@, word)]
  /\ mints' = [mints EXCEPT ![r] = 0]
  /\ pre' = Vault
  /\ pc' = [pc EXCEPT ![r] = "save_insert"]
  /\ UNCHANGED <<variant, db_vault, disk, lock, words, idx, tokenized, new_token,
                 count, resp, retrieved, calls, restarts, fresh, lastSaved,
                 issued, arrivedNew, contended, storeUp, startNew, sqlVars>>

\* PersistentTokenVault::set_token, the two inserts; self.save() follows
SetToken(r) ==
  /\ pc[r] = "set"
  /\ LET word == words[r][idx[r]]
     IN /\ word_to_token' = MapInsert(word_to_token, word, new_token[r])
        /\ token_to_word' = MapInsert(token_to_word, new_token[r], word)
        /\ setCalls' = [setCalls EXCEPT ![word] = @ + 1]
        /\ setLog' = [setLog EXCEPT ![r] = Append(@, word)]
  /\ mints' = [mints EXCEPT ![r] = 0]
  /\ pre' = Vault
  /\ pc' = [pc EXCEPT ![r] = "save_insert"]
  /\ UNCHANGED <<variant, db_vault, disk, lock, words, idx, tokenized, new_token,
                 count, resp, retrieved, calls, restarts, fresh, lastSaved,
                 issued, arrivedNew, contended, storeUp, startNew, sqlVars>>

\* PersistentTokenVault::save: serialize and self.db.insert("vault", encoded)?
SaveInsert(r) ==
  /\ pc[r] = "save_insert"
  /\ \/ /\ db_vault' = Record(Vault)
        /\ pc' = [pc EXCEPT ![r] = "save_flush"]
     \/ /\ pc' = [pc EXCEPT ![r] = "ret_err"]
        /\ UNCHANGED db_vault
  /\ UNCHANGED <<variant, word_to_token, token_to_word, disk, lock, words, idx,
                 tokenized, new_token, count, resp, retrieved, calls, restarts,
                 fresh, pre, lastSaved, issued, setCalls, arrivedNew, contended,
                 storeUp, mints, startNew, setLog, sqlVars>>

\* SaveFlush as it would be if a failed flush emptied the store
SaveFlushLosesRecord(r) ==
  /\ pc[r] = "save_flush"
  /\ \/ /\ disk' = db_vault
        /\ lastSaved' = [some |-> TRUE, vault |-> Vault]
        /\ tokenized' = [tokenized EXCEPT ![r] = Append(@, new_token[r])]
        /\ idx' = [idx EXCEPT ![r] = @ + 1]
        /\ pc' = [pc EXCEPT ![r] = "lookup"]
     \/ /\ disk' = NoRecord
        /\ pc' = [pc EXCEPT ![r] = "ret_err"]
        /\ UNCHANGED <<lastSaved, tokenized, idx>>
  /\ UNCHANGED <<variant, word_to_token, token_to_word, db_vault, lock, words,
                 new_token, count, resp, retrieved, calls, restarts, fresh, pre,
                 issued, setCalls, arrivedNew, contended,
                 storeUp, mints, startNew, setLog, sqlVars>>

\* PersistentTokenVault::save: self.db.flush(); on Ok set_token returns Ok and
\* the iteration ends with tokenized.push(token).  A flush that fails leaves
\* the inserted record in the store: a reopened store may or may not recover it.
SaveFlush(r) ==
  /\ pc[r] = "save_flush"
  /\ \/ /\ disk' = db_vault
        /\ lastSaved' = [some |-> TRUE, vault |-> Vault]
        /\ tokenized' = [tokenized EXCEPT ![r] = Append(@, new_token[r])]
        /\ idx' = [idx EXCEPT ![r] = @ + 1]
        /\ pc' = [pc EXCEPT ![r] = "lookup"]
     \/ /\ disk' \in {disk, db_vault}
        /\ pc' = [pc EXCEPT ![r] = "ret_err"]
        /\ UNCHANGED <<lastSaved, tokenized, idx>>
  /\ UNCHANGED <<variant, word_to_token, token_to_word, db_vault, lock, words,
                 new_token, count, resp, retrieved, calls, restarts, fresh, pre,
                 issued, setCalls, arrivedNew, contended,
                 storeUp, mints, startNew, setLog, sqlVars>>

\* tokenize has returned: its locals are gone
Returned(r) ==
  /\ idx' = [idx EXCEPT ![r] = 1]
  /\ tokenized' = [tokenized EXCEPT ![r] = <<>>]
  /\ new_token' = [new_token EXCEPT ![r] = "tA"]
  /\ count' = [count EXCEPT ![r] = 0]
  /\ pre' = EmptyVault
  /\ mints' = [mints EXCEPT ![r] = 0]
  /\ startNew' = [startNew EXCEPT ![r] = {}]
  /\ setLog' = [setLog EXCEPT ![r] = <<>>]

\* a handler that answers 200 whatever tokenize returned
HandlerResponseOk(ok, text) == OkResp(200, text)

\* tokenize_handler: the match on tokenize's result
HandlerResponse(ok, text) == IF ok THEN OkResp(200, text) ELSE ErrResp(500)

\* Respond as it would be if the guard were dropped on the Ok arm only
RespondKeepLockOnErr(r) ==
  /\ variant = "http"
  /\ pc[r] \in {"ret_ok", "ret_err"}
  /\ resp' = [resp EXCEPT ![r] = HandlerResponse(pc[r] = "ret_ok", Join(tokenized[r]))]
  /\ issued' = IF pc[r] = "ret_ok" THEN issued \cup Pairs(words[r], tokenized[r]) ELSE issued
  /\ lock' = IF pc[r] = "ret_ok" THEN 0 ELSE lock
  /\ pc' = [pc EXCEPT ![r] = "done"]
  /\ Returned(r)
  /\ UNCHANGED <<variant, word_to_token, token_to_word, db_vault, disk, words,
                 retrieved, calls, restarts, fresh, lastSaved, setCalls,
                 arrivedNew, contended, storeUp, sqlVars>>

\* tokenize_handler: the match on tokenize's result; the guard drops on return
Respond(r) ==
  /\ variant = "http"
  /\ pc[r] \in {"ret_ok", "ret_err"}
  /\ resp' = [resp EXCEPT ![r] = HandlerResponse(pc[r] = "ret_ok", Join(tokenized[r]))]
  /\ issued' = IF pc[r] = "ret_ok" THEN issued \cup Pairs(words[r], tokenized[r]) ELSE issued
  /\ lock' = 0
  /\ pc' = [pc EXCEPT ![r] = "done"]
  /\ Returned(r)
  /\ UNCHANGED <<variant, word_to_token, token_to_word, db_vault, disk, words,
                 retrieved, calls, restarts, fresh, lastSaved, setCalls,
                 arrivedNew, contended, storeUp, sqlVars>>

\* main: tokenized.split_whitespace().filter_map(|token| vault.get_token(token))
RECURSIVE Retrieve(_)
Retrieve(toks) ==
  IF Len(toks) = 0 THEN <<>>
  ELSE LET got == GetToken(Head(toks))
       IN (IF got = {} THEN <<>> ELSE <<CHOOSE w \in got : TRUE>>) \o Retrieve(Tail(toks))

\* main: tokenize returned Ok; the retrieval step runs and main returns
MainRetrieve ==
  /\ variant = "cli"
  /\ pc[1] = "ret_ok"
  /\ resp' = [resp EXCEPT ![1] = OkResp(0, Join(tokenized[1]))]
  /\ retrieved' = Retrieve(SplitWhitespace(Join(tokenized[1])))
  /\ issued' = issued \cup Pairs(words[1], tokenized[1])
  /\ pc' = [pc EXCEPT ![1] = "done"]
  /\ Returned(1)
  /\ UNCHANGED <<variant, word_to_token, token_to_word, db_vault, disk, lock, words,
                 calls, restarts, fresh, lastSaved, setCalls, arrivedNew, contended,
                 storeUp, sqlVars>>

\* main: tokenize(...)? returned Err; main returns it
MainFail ==
  /\ variant = "cli"
  /\ pc[1] = "ret_err"
  /\ resp' = [resp EXCEPT ![1] = ErrResp(0)]
  /\ pc' = [pc EXCEPT ![1] = "done"]
  /\ Returned(1)
  /\ UNCHANGED <<variant, word_to_token, token_to_word, db_vault, disk, lock, words,
                 retrieved, calls, restarts, fresh, lastSaved, issued, setCalls,
                 arrivedNew, contended, storeUp, sqlVars>>

\* The process ends with no call under way and starts again on the same
\* location: main's PersistentTokenVault::new("token_vault.db").
Restart ==
  /\ restarts < MaxRestarts
  /\ \A r \in Reqs : pc[r] \in {"idle", "done", "down"}
  /\ restarts' = restarts + 1
  /\ \E storeOk \in BOOLEAN :
        LET res == NewResult(disk, storeOk) IN
        /\ storeUp' = storeOk
        /\ word_to_token' = res.vault.word_to_token
        /\ token_to_word' = res.vault.token_to_word
        /\ pc' = [r \in Reqs |-> IF res.ok THEN "idle" ELSE "down"]
        /\ fresh' = res.ok
  /\ db_vault' = disk
  /\ lock' = 0
  /\ words' = [r \in Reqs |-> <<>>]
  /\ idx' = [r \in Reqs |-> 1]
  /\ tokenized' = [r \in Reqs |-> <<>>]
  /\ new_token' = [r \in Reqs |-> "tA"]
  /\ count' = [r \in Reqs |-> 0]
  /\ resp' = [r \in Reqs |-> NoResp]
  /\ retrieved' = <<>>
  /\ pre' = EmptyVault
  /\ issued' = {}
  /\ setCalls' = [w \in Words |-> 0]
  /\ arrivedNew' = [r \in Reqs |-> {}]
  /\ contended' = [r \in Reqs |-> FALSE]
  /\ mints' = [r \in Reqs |-> 0]
  /\ startNew' = [r \in Reqs |-> {}]
  /\ setLog' = [r \in Reqs |-> <<>>]
  /\ UNCHANGED <<variant, disk, calls, lastSaved, sqlVars>>

Next ==
  \/ \E r \in Reqs, text \in Texts : Request(r, text)
  \/ \E r \in Reqs : Acquire(r)
  \/ \E r \in Reqs : Lookup(r)
  \/ \E r \in Reqs, t \in Tokens : MintCli(r, t)
  \/ \E r \in Reqs, t \in Tokens : MintHttp(r, t)
  \/ \E r \in Reqs : SetToken(r)
  \/ \E r \in Reqs : SaveInsert(r)
  \/ \E r \in Reqs : SaveFlush(r)
  \/ \E r \in Reqs : Respond(r)
  \/ MainRetrieve
  \/ MainFail
  \/ Restart

Spec == Init /\ [][Next]_vars

\* The HTTP service alone, under a scheduler that lets every runnable request
\* take its next step: a request that can acquire the mutex or continue its
\* call is not left waiting forever.  Requests carry at most one word.
LiveTexts == {t \in Texts : Len(t) <= 1}
InitLive == Init /\ variant = "http"
Step(r) ==
  \/ Acquire(r)
  \/ Lookup(r)
  \/ \E t \in Tokens : MintHttp(r, t)
  \/ SetToken(r)
  \/ SaveInsert(r)
  \/ SaveFlush(r)
  \/ Respond(r)
NextLive ==
  \/ \E r \in Reqs, text \in LiveTexts : Request(r, text)
  \/ \E r \in Reqs : Step(r)
SpecLive == InitLive /\ [][NextLive]_vars /\ \A r \in Reqs : WF_vars(Step(r))

\* ------------------------------------- the SQL-backed program (one caller)
\* main_sqlserver.rs keeps one map, TokenVault.tokens, as a cache of the rows
\* of table TokenVault (token PRIMARY KEY, value).  The table outlives the
\* process; the cache starts empty at every start.  Each execute or query may
\* fail (connection, or the server rejecting the statement).
sledVars == <<word_to_token, token_to_word, db_vault, disk, lock, fresh,
              lastSaved, setCalls, arrivedNew, contended>>
sledCallVars == <<count, pre, mints, startNew, setLog>>

InitSql ==
  /\ variant = "sql"
  /\ disk = NoRecord
  /\ db_vault = NoRecord
  /\ word_to_token = EmptyMap
  /\ token_to_word = EmptyMap
  /\ lock = 0
  /\ pc = [r \in Reqs |-> "idle"]
  /\ words = [r \in Reqs |-> <<>>]
  /\ idx = [r \in Reqs |-> 1]
  /\ tokenized = [r \in Reqs |-> <<>>]
  /\ new_token = [r \in Reqs |-> "tA"]
  /\ count = [r \in Reqs |-> 0]
  /\ resp = [r \in Reqs |-> NoResp]
  /\ retrieved = <<>>
  /\ calls = 0
  /\ restarts = 0
  /\ fresh = TRUE
  /\ pre = EmptyVault
  /\ lastSaved = NoSave
  /\ issued = {}
  /\ setCalls = [w \in Words |-> 0]
  /\ arrivedNew = [r \in Reqs |-> {}]
  /\ contended = [r \in Reqs |-> FALSE]
  /\ storeUp = TRUE
  /\ mints = [r \in Reqs |-> 0]
  /\ startNew = [r \in Reqs |-> {}]
  /\ setLog = [r \in Reqs |-> <<>>]
  /\ sql_tokens = EmptyMap
  /\ sql_table = EmptyMap

\* main: tokenize(&mut vault, sensitive_data) is called
SqlRequest(text) ==
  /\ calls < MaxCalls
  /\ pc[1] = "idle"
  /\ words' = [words EXCEPT ![1] = SplitWhitespace(text)]
  /\ pc' = [pc EXCEPT ![1] = "lookup"]
  /\ calls' = calls + 1
  /\ UNCHANGED <<variant, idx, tokenized, new_token, resp, retrieved, restarts,
                 issued, storeUp, sqlVars, sledVars, sledCallVars>>

\* tokenize: the loop head and `match vault.get_token(&word).await?`;
\* get_token answers from the cache, else from the row whose token column
\* equals the key, which it then caches; a failed query returns the error.
SqlLookup ==
  /\ pc[1] = "lookup"
  /\ IF idx[1] > Len(words[1])
       THEN /\ pc' = [pc EXCEPT ![1] = "ret_ok"]
            /\ UNCHANGED <<idx, tokenized, sql_tokens>>
       ELSE LET word == words[1][idx[1]] IN
            IF word \in DOMAIN sql_tokens
              THEN /\ tokenized' = [tokenized EXCEPT ![1] = Append(@, sql_tokens[word])]
                   /\ idx' = [idx EXCEPT ![1] = @ + 1]
                   /\ UNCHANGED <<pc, sql_tokens>>
              ELSE \/ /\ pc' = [pc EXCEPT ![1] = "ret_err"]
                      /\ UNCHANGED <<idx, tokenized, sql_tokens>>
                   \/ IF word \in DOMAIN sql_table
                        THEN /\ sql_tokens' = MapInsert(sql_tokens, word, sql_table[word])
                             /\ tokenized' = [tokenized EXCEPT ![1] = Append(@, sql_table[word])]
                             /\ idx' = [idx EXCEPT ![1] = @ + 1]
                             /\ UNCHANGED pc
                        ELSE /\ pc' = [pc EXCEPT ![1] = "mint"]
                             /\ UNCHANGED <<idx, tokenized, sql_tokens>>
  /\ UNCHANGED <<variant, words, new_token, resp, retrieved, calls, restarts,
                 issued, storeUp, sql_table, sledVars, sledCallVars>>

\* tokenize: let new_token = generate_token(); no check against the vault
SqlMint(t) ==
  /\ pc[1] = "mint"
  /\ new_token' = [new_token EXCEPT ![1] = t]
  /\ pc' = [pc EXCEPT ![1] = "set"]
  /\ UNCHANGED <<variant, words, idx, tokenized, resp, retrieved, calls, restarts,
                 issued, storeUp, sqlVars, sledVars, sledCallVars>>

\* tokenize: vault.set_token(&new_token, &word).await?; tokenized.push(token).
\* set_token(key, value) writes the row (token = key, value = value), then
\* caches key -> value; a failed execute returns the error before the cache
\* is touched.
SqlSetToken ==
  /\ pc[1] = "set"
  /\ LET key == new_token[1]
         value == words[1][idx[1]]
     IN \/ /\ sql_table' = MapInsert(sql_table, key, value)
           /\ sql_tokens' = MapInsert(sql_tokens, key, value)
           /\ tokenized' = [tokenized EXCEPT ![1] = Append(@, new_token[1])]
           /\ idx' = [idx EXCEPT ![1] = @ + 1]
           /\ pc' = [pc EXCEPT ![1] = "lookup"]
        \/ /\ pc' = [pc EXCEPT ![1] = "ret_err"]
           /\ UNCHANGED <<sql_table, sql_tokens, tokenized, idx>>
  /\ UNCHANGED <<variant, words, new_token, resp, retrieved, calls, restarts,
                 issued, storeUp, sledVars, sledCallVars>>

\* main: join_all of vault.get_token(token) over the tokens, errors and
\* misses dropped by filter_map(|r| r.ok().flatten()).  The result is the
\* pair of the words retrieved and the cache afterwards; queryOk tells
\* whether the queries of this retrieval succeed.
RECURSIVE SqlRetrieve(_, _, _)
SqlRetrieve(toks, cache, queryOk) ==
  IF Len(toks) = 0 THEN [out |-> <<>>, cache |-> cache]
  ELSE LET key == Head(toks) IN
       IF key \in DOMAIN cache
         THEN LET rest == SqlRetrieve(Tail(toks), cache, queryOk)
              IN [out |-> <<cache[key]>> \o rest.out, cache |-> rest.cache]
         ELSE IF queryOk /\ key \in DOMAIN sql_table
           THEN LET rest == SqlRetrieve(Tail(toks),
                                        MapInsert(cache, key, sql_table[key]), queryOk)
                IN [out |-> <<sql_table[key]>> \o rest.out, cache |-> rest.cache]
           ELSE SqlRetrieve(Tail(toks), cache, queryOk)

\* main: tokenize returned Ok; the retrieval runs and main returns
SqlMainRetrieve ==
  /\ pc[1] = "ret_ok"
  /\ resp' = [resp EXCEPT ![1] = OkResp(0, Join(tokenized[1]))]
  /\ \E queryOk \in BOOLEAN :
        LET got == SqlRetrieve(SplitWhitespace(Join(tokenized[1])), sql_tokens, queryOk)
        IN /\ retrieved' = got.out
           /\ sql_tokens' = got.cache
  /\ issued' = issued \cup Pairs(words[1], tokenized[1])
  /\ pc' = [pc EXCEPT ![1] = "done"]
  /\ Returned(1)
  /\ UNCHANGED <<variant, words, calls, restarts, storeUp, sql_table, sledVars>>

\* main: tokenize(...).await? returned Err; main returns it
SqlMainFail ==
  /\ pc[1] = "ret_err"
  /\ resp' = [resp EXCEPT ![1] = ErrResp(0)]
  /\ pc' = [pc EXCEPT ![1] = "done"]
  /\ Returned(1)
  /\ UNCHANGED <<variant, words, retrieved, calls, restarts, issued, storeUp,
                 sqlVars, sledVars>>

\* The program is run again: PersistentTokenVault::new connects, creates the
\* table if it is missing and starts with an empty cache; the rows stay.
SqlRestart ==
  /\ restarts < MaxRestarts
  /\ pc[1] \in {"idle", "done", "down"}
  /\ restarts' = restarts + 1
  /\ \E connected \in BOOLEAN :
        /\ storeUp' = connected
        /\ pc' = [pc EXCEPT ![1] = IF connected THEN "idle" ELSE "down"]
  /\ sql_tokens' = EmptyMap
  /\ words' = [words EXCEPT ![1] = <<>>]
  /\ resp' = [resp EXCEPT ![1] = NoResp]
  /\ retrieved' = <<>>
  /\ UNCHANGED <<variant, idx, tokenized, new_token, calls, issued, sql_table,
                 sledVars, sledCallVars>>

NextSql ==
  \/ \E text \in Texts : SqlRequest(text)
  \/ SqlLookup
  \/ \E t \in Tokens : SqlMint(t)
  \/ SqlSetToken
  \/ SqlMainRetrieve
  \/ SqlMainFail
  \/ SqlRestart

SpecSql == InitSql /\ [][NextSql]_vars

TypeOK ==
  /\ variant \in {"cli", "http", "sql"}
  /\ DOMAIN sql_tokens \subseteq Words \cup Tokens
  /\ DOMAIN sql_table \subseteq Tokens
  /\ DOMAIN word_to_token \subseteq Words
  /\ DOMAIN token_to_word \subseteq Tokens
  /\ lock \in Reqs \cup {0}
  /\ calls \in 0..MaxCalls
  /\ storeUp \in BOOLEAN
  /\ \A r \in Reqs : /\ mints[r] \in 0..MaxMints
                      /\ startNew[r] \subseteq Words
                      /\ Range(setLog[r]) \subseteq Words
                      /\ pc[r] \in {"idle", "lock", "lookup", "mint", "set",
                                    "save_insert", "save_flush", "ret_ok",
                                    "ret_err", "done", "down"}

\* ------------------------------------------------------------------ claims
InTokenize == {"lookup", "mint", "set", "save_insert", "save_flush", "ret_ok", "ret_err"}
Answered(r) == pc[r] = "done" /\ resp[r].result = "ok"
\* the token an Ok answer carries for word w of its input
TokenFor(r, w) ==
  LET toks == SplitWhitespace(resp[r].tokenized)
      i == CHOOSE j \in 1..Len(words[r]) : words[r][j] = w
  IN toks[i]

\* C1: no two distinct words of word_to_token map to the same token, in
\* either sled-backed variant, whatever generate_token returned.
C1_Uniqueness ==
  \A w1, w2 \in DOMAIN word_to_token :
    word_to_token[w1] = word_to_token[w2] => w1 = w2

\* C2: word_to_token[w] = t if and only if token_to_word[t] = w, in every
\* reachable state of the vault.
C2_Bijection ==
  /\ \A w \in DOMAIN word_to_token :
       /\ word_to_token[w] \in DOMAIN token_to_word
       /\ token_to_word[word_to_token[w]] = w
  /\ \A t \in DOMAIN token_to_word :
       /\ token_to_word[t] \in DOMAIN word_to_token
       /\ word_to_token[token_to_word[t]] = t

\* C3: when main has tokenized its text and run its retrieval step, the
\* retrieved words are the words of the text, in order (main.rs never assigns
\* a colliding token).
C3_RoundTrip ==
  (variant = "cli" /\ Answered(1)) => retrieved = words[1]

\* C4: when set_token has returned an error (the insert or the flush failed),
\* both in-memory maps are what they were when set_token was called.
C4_FailureAtomic ==
  \A r \in Reqs : pc[r] = "ret_err" => Vault = pre

\* C5: tokenize never calls set_token with a token that is already a key of
\* token_to_word.
C5_NeverAssignColliding ==
  \A r \in Reqs : pc[r] = "set" => new_token[r] \notin DOMAIN token_to_word

\* C6: whenever tokenize has just returned Ok, the persisted "vault" record
\* decodes to exactly the in-memory maps.
C6_Converged ==
  \A r \in Reqs : pc[r] = "ret_ok" => New(disk) = Vault

\* C7: after a restart, PersistentTokenVault::new yields the in-memory maps
\* as they were at the last save that succeeded.
C7_Durable ==
  (fresh /\ lastSaved.some) => Vault = lastSaved.vault

\* C8: within one vault lifetime, all the tokens tokenize has returned for a
\* word are the same token.
C8_Idempotent ==
  \A p, q \in issued : p[1] = q[1] => p[2] = q[2]

\* C8 witness: request r1 was answered a token for w, which it introduced; a
\* later request r2 was answered for w again, after a word w2 it introduced
\* had been given the very token of w.
C8_Witness ==
  \E r1, r2 \in Reqs, w, w2 \in Words :
    /\ r1 # r2 /\ w # w2
    /\ Answered(r1) /\ Answered(r2)
    /\ w \in arrivedNew[r1] /\ w \in Range(words[r2]) \ arrivedNew[r2]
    /\ w2 \in arrivedNew[r2]
    /\ word_to_token[w2] = word_to_token[w]
    /\ TokenFor(r1, w) = TokenFor(r2, w)

\* two HTTP requests that ran concurrently and both held w, unseen on arrival
Raced(r1, r2, w) ==
  /\ variant = "http" /\ r1 # r2
  /\ pc[r1] = "done" /\ pc[r2] = "done"
  /\ w \in arrivedNew[r1] \cap arrivedNew[r2]
  /\ contended[r1] \/ contended[r2]

\* C9 as stated: two concurrent requests for the same unseen word lead to
\* exactly one set_token call for it, and both responses carry the same token.
C9_BothCarrySameToken ==
  \A r1, r2 \in Reqs, w \in Words :
    Raced(r1, r2, w) =>
      /\ setCalls[w] = 1
      /\ resp[r1].result = "ok" /\ resp[r2].result = "ok"
      /\ TokenFor(r1, w) = TokenFor(r2, w)

\* C9 as amended: set_token is called for the word at most once, exactly once
\* if a request is answered with success, and every successful response
\* carries the one token assigned to the word.
C9_NoDuplicateAssignment ==
  \A r1, r2 \in Reqs, w \in Words :
    Raced(r1, r2, w) =>
      /\ setCalls[w] <= 1
      /\ \A r \in {r1, r2} :
           resp[r].result = "ok" =>
             /\ setCalls[w] = 1
             /\ TokenFor(r, w) = word_to_token[w]

\* C9 witness: both racing requests were answered with success
C9_Witness ==
  \E r1, r2 \in Reqs, w \in Words :
    /\ Raced(r1, r2, w)
    /\ Answered(r1) /\ Answered(r2)
    /\ setCalls[w] = 1
    /\ TokenFor(r1, w) = TokenFor(r2, w)

\* C10: in the HTTP variant a request that is anywhere inside tokenize, from
\* its first lookup to its return, holds the lock; so at most one request is
\* inside tokenize and none reads the vault between another's insert and flush.
C10_MutualExclusion ==
  variant = "http" =>
    /\ \A r \in Reqs : pc[r] \in InTokenize => lock = r
    /\ Cardinality({r \in Reqs : pc[r] \in InTokenize}) <= 1

\* C10 witness: one request stands between its in-memory insert and its
\* flush while the other waits for the lock.
C10_Witness ==
  \E r1, r2 \in Reqs :
    /\ variant = "http"
    /\ pc[r1] = "save_flush"
    /\ pc[r2] = "lock"

\* C11: PersistentTokenVault::new fails only when the store cannot be opened
\* or read; otherwise it returns a vault whose two maps are empty when the
\* "vault" record is absent or does not decode, and hold exactly the entries
\* of the record when it decodes.
HoldsExactly(m, es) ==
  /\ \A k \in DOMAIN m : \E i \in 1..Len(es) : es[i] = <<k, m[k]>>
  /\ \A i \in 1..Len(es) : es[i][1] \in DOMAIN m
C11_New ==
  [][restarts' # restarts =>
       /\ (\E r \in Reqs : pc'[r] = "down") <=> ~storeUp'
       /\ storeUp' =>
            IF disk.present /\ Decodable(disk.data)
              THEN /\ HoldsExactly(word_to_token', disk.data.w2t)
                   /\ HoldsExactly(token_to_word', disk.data.t2w)
              ELSE /\ DOMAIN word_to_token' = {}
                   /\ DOMAIN token_to_word' = {}]_vars
\* the process was started again on a record that does not decode and runs
\* with an empty vault
C11_Witness ==
  /\ restarts = 1
  /\ storeUp
  /\ disk = Garbage
  /\ Vault = EmptyVault
  /\ \A r \in Reqs : pc[r] = "idle"

\* C12: the retrieval step of main yields, in order, the word of every token
\* of the text that token_to_word holds and nothing for the other tokens, so
\* it yields as many words as the text has tokens held by the vault.
RECURSIVE KnownWords(_)
KnownWords(toks) ==
  IF Len(toks) = 0 THEN <<>>
  ELSE (IF Head(toks) \in DOMAIN token_to_word
          THEN <<token_to_word[Head(toks)]>> ELSE <<>>) \o KnownWords(Tail(toks))
C12_UnknownDropped ==
  (variant = "cli" /\ Answered(1)) =>
     LET toks == SplitWhitespace(resp[1].tokenized) IN
     /\ retrieved = KnownWords(toks)
     /\ Len(retrieved) = Cardinality({i \in 1..Len(toks) : toks[i] \in DOMAIN token_to_word})

\* C13: the handler answers 200 with the text tokenize returned exactly when
\* tokenize returned Ok, and 500 with an empty body when it returned an
\* error; no error of the vault is answered as a success.
C13_ErrorMapping ==
  [][\A r \in Reqs :
       (variant = "http" /\ pc[r] \in {"ret_ok", "ret_err"} /\ pc'[r] = "done") =>
          IF pc[r] = "ret_ok"
            THEN /\ resp'[r].result = "ok"
                 /\ resp'[r].status = 200
                 /\ resp'[r].tokenized = Join(tokenized[r])
            ELSE /\ resp'[r].result = "err"
                 /\ resp'[r].status = 500
                 /\ resp'[r].tokenized = <<>>]_vars
\* one request was answered 500 after a failed save and another 200 with a
\* token
C13_Witness ==
  /\ variant = "http"
  /\ \A r \in Reqs : pc[r] = "done"
  /\ resp[1] = ErrResp(500)
  /\ resp[2].status = 200
  /\ Len(resp[2].tokenized) > 0

\* C14: the mutex is released when a handler's call completes, on the Ok and
\* on the Err exit alike, so a request waiting for the mutex eventually holds
\* it, every holder's call running to completion.
C14_GuaranteedRelease ==
  /\ [](\A r \in Reqs : pc[r] \in {"idle", "lock", "done"} => lock # r)
  /\ \A r \in Reqs : (pc[r] = "lock") ~> (lock = r)
\* a request that waited holds the mutex after the holder's call failed
C14_Witness ==
  /\ variant = "http"
  /\ \E r \in Reqs, q \in Reqs :
        /\ q # r
        /\ contended[r]
        /\ lock = r
        /\ pc[q] = "done"
        /\ resp[q] = ErrResp(500)

\* C15: for one word that the vault does not hold, tokenize calls
\* generate_token at most twice before it goes on to set_token.
C15_BoundedMinting ==
  \A r \in Reqs : mints[r] <= 2

\* C16: when tokenize returns Ok it has called set_token (and so save) exactly
\* once for every distinct word of its input that word_to_token did not hold
\* when the call began, however often the word occurs, and for no other word;
\* while a call whose words the vault all held is running, the two maps and
\* the persisted record do not change.
TimesSet(r, w) == Cardinality({i \in 1..Len(setLog[r]) : setLog[r][i] = w})
Running(r) == pc[r] \in {"lookup", "mint", "set", "save_insert", "save_flush"}
C16_OncePerNewWord ==
  /\ [](\A r \in Reqs : pc[r] = "ret_ok" =>
          \A w \in Words : TimesSet(r, w) = IF w \in startNew[r] THEN 1 ELSE 0)
  /\ [][(\E r \in Reqs : Running(r) /\ startNew[r] = {}) =>
          UNCHANGED <<word_to_token, token_to_word, db_vault, disk>>]_vars
\* a call on "x x" with x new has returned Ok after one set_token
C16_Witness ==
  \E r \in Reqs :
    /\ pc[r] = "ret_ok"
    /\ words[r] = <<"x", "x">>
    /\ startNew[r] = {"x"}
    /\ setLog[r] = <<"x">>

\* C17: whenever tokenize returns Ok, every (word, token) pair of its output
\* is an entry of the record the store currently holds.
C17_ReturnedDurable ==
  \A r \in Reqs : pc[r] = "ret_ok" =>
     \A i \in 1..Len(words[r]) :
        /\ disk.present
        /\ <<words[r][i], tokenized[r][i]>> \in Range(disk.data.w2t)

\* C18: when set_token fails for the k-th word, tokenize returns the error at
\* once: it has pushed tokens for the words before k only, set_token's last
\* call was for word k, no later new word has been assigned and the caller
\* gets no token text; the words before k that were new in this call keep
\* their tokens in word_to_token and in the persisted record.
C18_PartialProgress ==
  /\ \A r \in Reqs : pc[r] = "ret_err" =>
        LET k == idx[r] IN
        /\ k \in 1..Len(words[r])
        /\ Len(tokenized[r]) = k - 1
        /\ Len(setLog[r]) > 0
        /\ setLog[r][Len(setLog[r])] = words[r][k]
        /\ \A j \in (k + 1)..Len(words[r]) :
              (words[r][j] \in startNew[r] /\ \A i \in 1..k : words[r][i] # words[r][j])
                 => words[r][j] \notin DOMAIN word_to_token
        /\ \A i \in 1..(k - 1) :
              words[r][i] \in startNew[r] =>
                 /\ words[r][i] \in DOMAIN word_to_token
                 /\ word_to_token[words[r][i]] = tokenized[r][i]
                 /\ disk.present
                 /\ <<words[r][i], tokenized[r][i]>> \in Range(disk.data.w2t)
  /\ \A r \in Reqs : (pc[r] = "done" /\ resp[r].result = "err") => resp[r].tokenized = <<>>
\* set_token has failed for the second word of "x y", both words new; x is
\* in the persisted record
C18_Witness ==
  \E r \in Reqs :
    /\ pc[r] = "ret_err"
    /\ words[r] = <<"x", "y">>
    /\ startNew[r] = {"x", "y"}
    /\ idx[r] = 2
    /\ disk.present
    /\ <<"x", tokenized[r][1]>> \in Range(disk.data.w2t)

\* C19: in the SQL-backed program the key set_token stores a new assignment
\* under is the key get_token looks a word up by: a word that has a row is
\* found by the lookup (tokenize does not go on to mint for it), so no word
\* ever has two rows and every Ok answer carries the same token for it.
RowsOf(w) == {t \in DOMAIN sql_table : sql_table[t] = w}
C19_KeyAgreement ==
  variant = "sql" =>
    /\ (pc[1] \in {"mint", "set"} => RowsOf(words[1][idx[1]]) = {})
    /\ \A w \in Words : Cardinality(RowsOf(w)) <= 1
    /\ \A p \in issued, q \in issued : p[1] = q[1] => p[2] = q[2]

====
